---- MODULE Spec2Model ----
(***************************************************************************)
(* Model of dash_dev/doit_base.py: the DoItGlobals object (DIG), its       *)
(* set_paths method and the directory/file helpers that change the         *)
(* filesystem set_paths reads (ensure_dir, delete_dir, if_found_unlink).   *)
(*                                                                         *)
(* A file or directory name is a sequence of characters, a Path is a       *)
(* sequence of names, Optional[T] is <<>> (None) or <<v>>.                 *)
(***************************************************************************)
EXTENDS Bags, FiniteSets, Integers, Sequences, TLC

VARIABLES fs, dig, last

vars == <<fs, dig, last>>

----------------------------------------------------------------------------
(* Optional values *)

None == <<>>

Some(v) == <<v>>

----------------------------------------------------------------------------
(* Names used by the code (string literals of doit_base.py) *)

n_tests == <<"t", "e", "s", "t", "s">>

n_docs == <<"d", "o", "c", "s">>

n_templates == <<"t", "e", "m", "p", "l", "a", "t", "e", "s">>

n_cov_html == <<"c", "o", "v", "_", "h", "t", "m", "l">>

n_index_html == <<"i", "n", "d", "e", "x", ".", "h", "t", "m", "l">>

n_test_report_html == <<"t", "e", "s", "t", "_", "r", "e", "p", "o", "r", "t", ".", "h", "t", "m", "l">>

n_flake8 == <<".", "f", "l", "a", "k", "e", "8">>

n_pyproject_toml == <<"p", "y", "p", "r", "o", "j", "e", "c", "t", ".", "t", "o", "m", "l">>

n_examples == <<"e", "x", "a", "m", "p", "l", "e", "s">>

n_scripts == <<"s", "c", "r", "i", "p", "t", "s">>

n_0EX == <<"0", "E", "X">>

external_doc_dirs == <<n_examples, n_scripts, n_tests>>

----------------------------------------------------------------------------
(* Bounded inputs: project roots, manifests, files of the working project *)

RootA == << <<"a">> >>

RootB == << <<"b">> >>

Roots == {RootA, RootB}

cwd == RootA

Site == << <<"s", "i", "t", "e">> >>

n_pkg == <<"p", "k", "g">>

n_my_pkg == <<"m", "y", "-", "p", "k", "g">>

n_main_py == <<"m", "a", "i", "n", ".", "p", "y">>

Manifest(name, version) == [tool |-> [poetry |-> [name |-> name, version |-> version]]]

Manifests == {Manifest(n_pkg, "0.1.0"), Manifest(n_my_pkg, "0.2.0"), Manifest(n_tests, "0.3.0")}

PyText == [code |-> "pass"]

MaxEntries == 6

----------------------------------------------------------------------------
(* pathlib *)

JoinPath(p, rel) == p \o rel

PathName(p) == p[Len(p)]

Prefixes(p) == {SubSeq(p, 1, k) : k \in 1..Len(p)}

IsUnder(p, d) == Len(p) >= Len(d) /\ SubSeq(p, 1, Len(d)) = d

is_file(f, p) == p \in DOMAIN f.files

is_dir(f, p) == p \in f.dirs

exists(f, p) == is_dir(f, p) \/ is_file(f, p)

MatchesPy(name) ==
    /\ Len(name) >= 3
    /\ SubSeq(name, Len(name) - 2, Len(name)) = <<".", "p", "y">>

glob_py(f, d) ==
    {p \in f.dirs \union DOMAIN f.files :
        /\ Len(p) = Len(d) + 1
        /\ IsUnder(p, d)
        /\ MatchesPy(PathName(p))}

toml_load(f, p) == f.files[p]

----------------------------------------------------------------------------
(* Manage Directories *)

mkdir_ok(f, p) == \A q \in Prefixes(p) : ~is_file(f, q)

ensure_dir(f, p) == [f EXCEPT !.dirs = @ \union Prefixes(p)]

delete_dir(f, p) ==
    IF is_dir(f, p)
    THEN [dirs |-> {q \in f.dirs : ~IsUnder(q, p)},
          files |-> [q \in {r \in DOMAIN f.files : ~IsUnder(r, p)} |-> f.files[q]]]
    ELSE f

if_found_unlink(f, p) ==
    IF is_file(f, p)
    THEN [f EXCEPT !.files = [q \in DOMAIN f.files \ {p} |-> f.files[q]]]
    ELSE f

----------------------------------------------------------------------------
(* class DoItGlobals *)

(* line 54 with the working directory as the class default *)
DoItGlobals_cwd ==
    [flake8_path |-> None,
     lint_paths |-> EmptyBag,
     source_path |-> Some(cwd),
     test_path |-> None,
     toml_path |-> None,
     pkg_name |-> None,
     doc_dir |-> None,
     coverage_path |-> None,
     test_report_path |-> None,
     src_examples_dir |-> None,
     tmp_examples_dir |-> None,
     template_dir |-> None,
     pkg_version |-> None]

DoItGlobals ==
    [flake8_path |-> None,
     lint_paths |-> EmptyBag,
     source_path |-> None,
     test_path |-> None,
     toml_path |-> None,
     pkg_name |-> None,
     doc_dir |-> None,
     coverage_path |-> None,
     test_report_path |-> None,
     src_examples_dir |-> None,
     tmp_examples_dir |-> None,
     template_dir |-> None,
     pkg_version |-> None]

(* line 117 written with startswith('-') instead of `in` *)
HasDash_startswith(name) == Len(name) > 0 /\ name[1] = "-"

HasDash(name) == \E i \in 1..Len(name) : name[i] = "-"

SeqToBag(s) == [x \in {s[i] : i \in 1..Len(s)} |-> Cardinality({i \in 1..Len(s) : s[i] = x})]

RuntimeError(msg) == Some([exc |-> "RuntimeError", msg |-> msg])

OSError(path) == Some([exc |-> "OSError", path |-> path])

(* line 104 without the doc_dir argument *)
SetDirs_default_docs(self, source_path, doc_dir) ==
    LET sp == IF source_path = None THEN cwd ELSE source_path[1]
        dd == JoinPath(sp, <<n_docs>>)
    IN  [self EXCEPT !.source_path = Some(sp),
                     !.test_path = Some(JoinPath(sp, <<n_tests>>)),
                     !.doc_dir = Some(dd),
                     !.template_dir = Some(JoinPath(dd, <<n_templates>>))]

(* lines 98-105: the locations assigned before ensure_dir *)
SetDirs(self, source_path, doc_dir) ==
    LET sp == IF source_path = None THEN cwd ELSE source_path[1]
        dd == IF doc_dir = None THEN JoinPath(sp, <<n_docs>>) ELSE doc_dir[1]
    IN  [self EXCEPT !.source_path = Some(sp),
                     !.test_path = Some(JoinPath(sp, <<n_tests>>)),
                     !.doc_dir = Some(dd),
                     !.template_dir = Some(JoinPath(dd, <<n_templates>>))]

(* lines 107-111: the locations assigned after ensure_dir *)
SetReports(self) ==
    [self EXCEPT !.coverage_path = Some(JoinPath(self.doc_dir[1], <<n_cov_html, n_index_html>>)),
                 !.test_report_path = Some(JoinPath(self.doc_dir[1], <<n_test_report_html>>)),
                 !.flake8_path = Some(JoinPath(self.source_path[1], <<n_flake8>>)),
                 !.toml_path = Some(JoinPath(self.source_path[1], <<n_pyproject_toml>>))]

(* line 112 written with exists() instead of is_file() *)
TomlMissing_exists(f, toml_path) == ~exists(f, toml_path)

(* lines 112-113 *)
TomlMissing(f, toml_path) == ~is_file(f, toml_path)

MissingMsg(self) ==
    [what |-> "Could not find", file |-> PathName(self.toml_path[1]), path |-> self.source_path[1]]

(* lines 114-116 *)
SetPackage(self, pkg_name, poetry_config) ==
    [self EXCEPT !.pkg_version = Some(poetry_config.version),
                 !.pkg_name = Some(poetry_config.name)]

DashMsg(self) ==
    [what |-> "Replace dashes", name |-> self.pkg_name[1], path |-> self.toml_path[1]]

(* lines 120-123 assigning src_examples_dir only when the directory exists *)
SetExamples_keep(self, f) ==
    LET src == JoinPath(self.source_path[1], <<n_tests, n_examples>>)
    IN  [self EXCEPT !.src_examples_dir = IF is_dir(f, src) THEN Some(src) ELSE self.src_examples_dir,
                     !.tmp_examples_dir = Some(JoinPath(self.source_path[1], <<self.pkg_name[1], n_0EX>>))]

(* lines 120-123 *)
SetExamples(self, f) ==
    LET src == JoinPath(self.source_path[1], <<n_tests, n_examples>>)
    IN  [self EXCEPT !.src_examples_dir = IF is_dir(f, src) THEN Some(src) ELSE None,
                     !.tmp_examples_dir = Some(JoinPath(self.source_path[1], <<self.pkg_name[1], n_0EX>>))]

(* lines 126-129 *)
LintCandidates(self, f) ==
    LET sub_dirs == <<self.pkg_name[1]>> \o external_doc_dirs
        paths == [i \in 1..Len(sub_dirs) |-> JoinPath(self.source_path[1], <<sub_dirs[i]>>)]
    IN  SeqToBag(paths \o <<self.test_path[1]>>) (+) SetToBag(glob_py(f, self.source_path[1]))

(* line 129 written as a list comprehension *)
SetLint_list(self, f) ==
    LET c == LintCandidates(self, f)
    IN  [self EXCEPT !.lint_paths = [p \in {q \in BagToSet(c) : exists(f, q)} |-> c[p]]]

SetLint(self, f) ==
    [self EXCEPT !.lint_paths = SetToBag({p \in BagToSet(LintCandidates(self, f)) : exists(f, p)})]

(* DoItGlobals.set_paths: the object, the filesystem, the exception raised *)
(* (None when the call returns) and the files handed to toml.load.         *)
set_paths(self, f, pkg_name, source_path, doc_dir) ==
    LET s1 == SetDirs(self, source_path, doc_dir)
        f1 == ensure_dir(f, s1.template_dir[1])
        s2 == SetReports(s1)
        s3 == SetPackage(s2, pkg_name, toml_load(f1, s2.toml_path[1]).tool.poetry)
        s4 == SetExamples(s3, f1)
        s5 == SetLint(s4, f1)
    IN  IF ~mkdir_ok(f, s1.template_dir[1])
        THEN [self |-> s1, fs |-> f, raised |-> OSError(s1.template_dir[1]), loads |-> {}]
        ELSE IF TomlMissing(f1, s2.toml_path[1])
        THEN [self |-> s2, fs |-> f1, raised |-> RuntimeError(MissingMsg(s2)), loads |-> {}]
        ELSE IF ~is_file(f1, s2.toml_path[1])
        THEN [self |-> s2, fs |-> f1, raised |-> OSError(s2.toml_path[1]), loads |-> {s2.toml_path[1]}]
        ELSE IF HasDash(s3.pkg_name[1])
        THEN [self |-> s3, fs |-> f1, raised |-> RuntimeError(DashMsg(s3)), loads |-> {s2.toml_path[1]}]
        ELSE [self |-> s5, fs |-> f1, raised |-> None, loads |-> {s2.toml_path[1]}]

----------------------------------------------------------------------------
(* The state machine *)

Entries(f) == Cardinality(f.dirs) + Cardinality(DOMAIN f.files)

DirInputs ==
    {JoinPath(RootA, <<n_tests>>), JoinPath(RootA, <<n_tests, n_examples>>),
     JoinPath(RootA, <<n_examples>>), JoinPath(RootA, <<n_pkg>>),
     JoinPath(RootB, <<n_pyproject_toml>>)}

FileInputs ==
    {<<JoinPath(RootA, <<n_pyproject_toml>>), m>> : m \in Manifests}
        \union {<<JoinPath(RootB, <<n_pyproject_toml>>), Manifest(n_pkg, "0.1.0")>>,
                <<JoinPath(RootB, <<n_pyproject_toml>>), Manifest(n_my_pkg, "0.2.0")>>,
                <<JoinPath(RootA, <<n_main_py>>), PyText>>}

Functional(F) == \A x \in F, y \in F : x[1] = y[1] => x = y

InitFs(D, F) ==
    [dirs |-> Roots \union UNION {Prefixes(p) : p \in D},
     files |-> [p \in {x[1] : x \in F} |-> (CHOOSE x \in F : x[1] = p)[2]]]

Init ==
    /\ \E D \in SUBSET DirInputs, F \in SUBSET FileInputs :
        /\ Functional(F)
        /\ \A x \in F : \A p \in D : ~IsUnder(p, x[1])
        /\ Entries(InitFs(D, F)) <= MaxEntries
        /\ fs = InitFs(D, F)
    /\ dig = DoItGlobals
    /\ last = [op |-> "init"]

SetPaths ==
    \E pkg_name \in {None} \union {Some(n) : n \in {n_pkg}},
       source_path \in {None, Some(RootB)},
       doc_dir \in {None, Some(Site)} :
        LET r == set_paths(dig, fs, pkg_name, source_path, doc_dir)
        IN  /\ dig' = r.self
            /\ fs' = r.fs
            /\ last' = [op |-> "set_paths",
                        pkg_name |-> pkg_name, source_path |-> source_path, doc_dir |-> doc_dir,
                        raised |-> r.raised, loads |-> r.loads]

Construct ==
    /\ dig' = DoItGlobals
    /\ last' = [op |-> "init"]
    /\ UNCHANGED fs

DeleteDir ==
    \E p \in {JoinPath(RootA, <<n_tests>>), JoinPath(RootA, <<n_tests, n_examples>>)} :
        /\ fs' = delete_dir(fs, p)
        /\ last' = [op |-> "delete_dir"]
        /\ UNCHANGED dig

IfFoundUnlink ==
    \E p \in {JoinPath(RootA, <<n_pyproject_toml>>)} :
        /\ fs' = if_found_unlink(fs, p)
        /\ last' = [op |-> "if_found_unlink"]
        /\ UNCHANGED dig

Next == SetPaths \/ Construct \/ DeleteDir \/ IfFoundUnlink

Spec == Init /\ [][Next]_vars

----------------------------------------------------------------------------
(* What the last call was given, read back from the call record *)

Called == last.op = "set_paths"

Returned == Called /\ last.raised = None

Raised(what) ==
    /\ Called
    /\ last.raised # None
    /\ last.raised[1].exc = "RuntimeError"
    /\ last.raised[1].msg.what = what

ArgRoot == IF last.source_path = None THEN cwd ELSE last.source_path[1]

ArgDocs == IF last.doc_dir = None THEN ArgRoot \o <<n_docs>> ELSE last.doc_dir[1]

ArgToml == ArgRoot \o <<n_pyproject_toml>>

ArgPoetry == fs.files[ArgToml].tool.poetry

Dashed(name) == "-" \in {name[i] : i \in 1..Len(name)}

----------------------------------------------------------------------------
C4_PkgNameArgument ==
    Returned =>
        LET N == IF last.pkg_name # None THEN last.pkg_name[1] ELSE ArgPoetry.name
        IN  /\ dig.pkg_name = Some(N)
            /\ dig.tmp_examples_dir = Some(ArgRoot \o <<N, n_0EX>>)

(* C5 as stated: a fresh object has every project location unset, and after*)
(* a call returns every location the specification lists, the tag file     *)
(* included, is an attribute of the object with a value other than None.   *)
FreshUnset ==
    (last.op = "init") =>
        /\ \A a \in {"source_path", "test_path", "toml_path", "pkg_name", "pkg_version", "doc_dir",
                     "template_dir", "coverage_path", "test_report_path", "flake8_path"} :
              a \in DOMAIN dig /\ dig[a] = None
        /\ BagToSet(dig.lint_paths) = {}

TagFileAttributes == {"tag_path", "tag_file", "path_tag", "path_tag_summary", "tags_path"}

C6_LintPaths ==
    Returned =>
        LET P == dig.source_path[1]
            py == {p \in fs.dirs \union DOMAIN fs.files :
                      /\ Len(p) = Len(P) + 1
                      /\ SubSeq(p, 1, Len(P)) = P
                      /\ Len(p[Len(p)]) >= 3
                      /\ SubSeq(p[Len(p)], Len(p[Len(p)]) - 2, Len(p[Len(p)])) = <<".", "p", "y">>}
            candidates == {P \o <<dig.pkg_name[1]>>, dig.test_path[1]}
                              \union {P \o <<d>> : d \in {n_examples, n_scripts, n_tests}}
                              \union py
        IN  /\ \A p \in DOMAIN dig.lint_paths : dig.lint_paths[p] = 1
            /\ DOMAIN dig.lint_paths = {p \in candidates : p \in fs.dirs \union DOMAIN fs.files}

(* a call has returned on a project that has a tests directory and a       *)
(* module next to pyproject.toml: both are lint targets *)
C6_Witness ==
    /\ Returned
    /\ {ArgRoot \o <<n_tests>>, ArgRoot \o <<n_main_py>>} \subseteq DOMAIN dig.lint_paths

(* C7: after a call returns, src_examples_dir is source_path/tests/examples*)
(* when that is a directory and None when it is not, whatever it was       *)
(* before the call.                                                        *)
C7_SrcExamplesDir ==
    Returned =>
        dig.src_examples_dir =
            IF ArgRoot \o <<n_tests, n_examples>> \in fs.dirs
            THEN Some(ArgRoot \o <<n_tests, n_examples>>)
            ELSE None

(* a call has returned on a project with tests but without tests/examples *)
C7_Witness ==
    /\ Returned
    /\ ArgRoot \o <<n_tests>> \in fs.dirs
    /\ ArgRoot \o <<n_tests, n_examples>> \notin fs.dirs
    /\ dig.src_examples_dir = None

(* C8: a call of set_paths that raises the missing-file RuntimeError       *)
(* leaves every attribute of the object and the filesystem as they were.   *)
C8_FailureChangesNothing ==
    [][Raised("Could not find")' => (dig' = dig /\ fs' = fs)]_vars

(* C9: in every reachable state pkg_name is None or a name without '-'.    *)
C9_NoDashedPkgName == dig.pkg_name = None \/ ~Dashed(dig.pkg_name[1])

====
